---- MODULE Spec2Model ----
(***************************************************************************)
(* Model of backend/server.js: the Express task-manager API with JWT       *)
(* authentication (register, login, authMiddleware, task CRUD) over the    *)
(* Mongoose models User and Task, and of the React client App.js that      *)
(* follows it in the same file.                                            *)
(*                                                                         *)
(* Strings are sequences of one-character strings, so that the schema      *)
(* option `trim: true` and String.prototype.replace are computed, not      *)
(* assumed.  Time is counted in minutes.  A request body is a function     *)
(* whose DOMAIN is the set of JSON fields present in it.                   *)
(***************************************************************************)
EXTENDS Integers, Sequences, FiniteSets, TLC

VARIABLES
    users,    \* the User collection: sequence of documents, _id = index
    tasks,    \* the Task collection: function from _id to document
    creator,  \* history: _id of every task ever created -> req.user of its POST
    now,      \* the server clock, in minutes
    issued,   \* the tokens handed out by register/login and kept by clients
    resp,     \* the last request and the response the server gave to it
    pending,  \* register requests between their User.findOne and their save
    client    \* the React client: its state, its localStorage, its requests

vars == <<users, tasks, creator, now, issued, resp, pending, client>>

(***************************************************************************)
(* Bounds of the model.                                                    *)
(***************************************************************************)
MaxUsers == 2
MaxTasks == 2
MaxTokens == 2
MaxTime == 61

(***************************************************************************)
(* Program constants.                                                      *)
(***************************************************************************)
JWT_SECRET == "JWT_SECRET"
OneHour == 60
SaltRounds == 10
BcryptMaxBytes == 72

(***************************************************************************)
(* Strings.                                                                *)
(***************************************************************************)
RECURSIVE TrimStart(_)
TrimStart(s) ==
    IF s # <<>> /\ Head(s) = " " THEN TrimStart(Tail(s)) ELSE s

RECURSIVE TrimEnd(_)
TrimEnd(s) ==
    IF s # <<>> /\ s[Len(s)] = " " THEN TrimEnd(SubSeq(s, 1, Len(s) - 1)) ELSE s

\* the setter that `trim: true` installs on a String path
Trim(s) == TrimEnd(TrimStart(s))

(***************************************************************************)
(* JSON request bodies.  `has` is the set of fields present; a field that  *)
(* is not present reads as undefined and its slot holds a filler.          *)
(***************************************************************************)
Has(body, field) == field \in body.has

EmptyBody ==
    [has |-> {}, email |-> <<>>, password |-> <<>>, title |-> <<>>,
     completed |-> FALSE, user |-> 0]

\* { email, password } with either field possibly left out
AuthBody(has, email, password) ==
    [EmptyBody EXCEPT !.has = has,
                      !.email = IF "email" \in has THEN email ELSE <<>>,
                      !.password = IF "password" \in has THEN password ELSE <<>>]

\* { title, completed, user } with any field possibly left out
TaskBody(has, title, completed, user) ==
    [EmptyBody EXCEPT !.has = has,
                      !.title = IF "title" \in has THEN title ELSE <<>>,
                      !.completed = IF "completed" \in has THEN completed ELSE FALSE,
                      !.user = IF "user" \in has THEN user ELSE 0]

(***************************************************************************)
(* JSON Web Tokens (jsonwebtoken).  A token is its payload and an HMAC of  *)
(* the payload under the signing key; the HMAC is modelled as an injective *)
(* function of key and payload (nobody can produce it without the key).    *)
(***************************************************************************)
HMAC(payload, key) == <<key, payload.userId, payload.iat, payload.exp>>

\* jwt.sign({ userId }, secret, { expiresIn: '1h' }) called at time t
jwtSign(userId, secret, t) ==
    LET payload == [userId |-> userId, iat |-> t, exp |-> t + OneHour]
    IN  [payload |-> payload, sig |-> HMAC(payload, secret)]

\* jwt.verify letting a token through at the very minute of its expiry
jwtVerifyLate(token, secret, t) ==
    /\ token.sig = HMAC(token.payload, secret)
    /\ ~(t > token.payload.exp)

\* jwt.verify(token, secret) at time t does not throw
jwtVerify(token, secret, t) ==
    /\ token.sig = HMAC(token.payload, secret)
    /\ ~(t >= token.payload.exp)

NoToken == [payload |-> [userId |-> 0, iat |-> 0, exp |-> 0], sig |-> <<"", 0, 0, 0>>]

(***************************************************************************)
(* The Authorization header: absent, or a string.  The string is a         *)
(* sequence of parts: the literal "Bearer ", a well-formed JWT, or other   *)
(* text that is no JWT.                                                    *)
(***************************************************************************)
BearerPart == [kind |-> "Bearer ", tok |-> NoToken]
JunkPart == [kind |-> "junk", tok |-> NoToken]
JwtPart(token) == [kind |-> "jwt", tok |-> token]

NoHeader == [present |-> FALSE, parts |-> <<>>]
HeaderOf(parts) == [present |-> TRUE, parts |-> parts]

\* authHeader.replace('Bearer ', ''): drops the first occurrence only
RECURSIVE ReplaceBearer(_)
ReplaceBearer(parts) ==
    IF parts = <<>> THEN <<>>
    ELSE IF Head(parts).kind = "Bearer " THEN Tail(parts)
    ELSE <<Head(parts)>> \o ReplaceBearer(Tail(parts))

\* the outcome of authMiddleware: next() with req.user set, or a 401
Unauthorized(message) ==
    [next |-> FALSE, status |-> 401, message |-> message, user |-> 0]

\* authMiddleware reading the payload with jwt.decode, which checks nothing
authMiddlewareDecode(authHeader, t) ==
    IF ~authHeader.present \/ authHeader.parts = <<>>
    THEN Unauthorized("Authorization header missing")
    ELSE LET token == ReplaceBearer(authHeader.parts) IN
         IF token = <<>>
         THEN Unauthorized("No token, authorization denied")
         ELSE IF Len(token) = 1 /\ token[1].kind = "jwt"
              THEN [next |-> TRUE, status |-> 200, message |-> "",
                    user |-> token[1].tok.payload.userId]
              ELSE Unauthorized("Token is not valid")

authMiddleware(authHeader, t) ==
    IF ~authHeader.present \/ authHeader.parts = <<>>
    THEN Unauthorized("Authorization header missing")
    ELSE LET token == ReplaceBearer(authHeader.parts) IN
         IF token = <<>>
         THEN Unauthorized("No token, authorization denied")
         ELSE IF /\ Len(token) = 1
                 /\ token[1].kind = "jwt"
                 /\ jwtVerify(token[1].tok, JWT_SECRET, t)
              THEN [next |-> TRUE, status |-> 200, message |-> "",
                    user |-> token[1].tok.payload.userId]
              ELSE Unauthorized("Token is not valid")

(***************************************************************************)
(* bcryptjs.  hash(password, salt) keeps the salt in its output and        *)
(* compare recomputes the hash under that salt.                            *)
(***************************************************************************)
\* the key schedule of bcrypt reads the first 72 bytes of the password
bcryptTruncate(password) ==
    IF Len(password) > BcryptMaxBytes
    THEN SubSeq(password, 1, BcryptMaxBytes)
    ELSE password

bcryptHash(password, salt) ==
    [rounds |-> SaltRounds, salt |-> salt,
     digest |-> <<salt, bcryptTruncate(password)>>]

\* bcrypt.compare that looks at the salt alone
bcryptCompareSalt(password, hash) == bcryptHash(password, hash.salt).salt = hash.salt

\* bcrypt.compare replaced by hashing the password again, under a new
\* salt, and comparing the two hashes
bcryptCompareFresh(password, hash) == bcryptHash(password, hash.salt + 1) = hash

bcryptCompare(password, hash) == bcryptHash(password, hash.salt) = hash

(***************************************************************************)
(* Documents and responses.                                                *)
(***************************************************************************)
NoTask ==
    [id |-> 0, title |-> <<>>, completed |-> FALSE, user |-> 0,
     createdAt |-> 0, updatedAt |-> 0]

NoTasks == [i \in {} |-> NoTask]

\* the last request (op, header, id, body) and what was answered to it
\* (`before` is history: the document an update found, as it was before;
\* `storeFailed` is history: a call to the store rejected during the request)
Response(op, header, id, body, status, message, user, token, task, list) ==
    [op |-> op, header |-> header, id |-> id, body |-> body,
     status |-> status, message |-> message, user |-> user,
     token |-> token, task |-> task, list |-> list, before |-> NoTask,
     storeFailed |-> FALSE]

\* res.status(s).json({ message })
Message(op, header, id, body, status, message, user) ==
    Response(op, header, id, body, status, message, user, NoToken, NoTask, <<>>)

NoResponse == Message("none", NoHeader, 0, EmptyBody, 0, "", 0)

\* a client keeps the token it was sent (the model follows MaxTokens of them)
Keep(token) ==
    IF Cardinality(issued) < MaxTokens THEN issued \cup {token} ELSE issued

\* App as it mounts in a browser that holds no token: useState(
\* localStorage.getItem('token') || null), useState([]), nothing requested
FreshClient ==
    [token |-> NoToken, stored |-> NoToken, tasks |-> <<>>, fetches |-> {}]

Init ==
    /\ users = <<>>
    /\ tasks = NoTasks
    /\ creator = [i \in {} |-> 0]
    /\ now = 0
    /\ issued = {}
    /\ resp = NoResponse
    /\ pending = {}
    /\ client = FreshClient

(***************************************************************************)
(* User.findOne({ email }): query casting runs the path's setters (trim);  *)
(* an undefined email matches no document, email being required.           *)
(***************************************************************************)
\* User.findOne comparing the stored email with the email as it was sent
UserFindOneRaw(body) ==
    IF Has(body, "email")
    THEN {i \in 1..Len(users) : users[i].email = body.email}
    ELSE {}

UserFindOne(body) ==
    IF Has(body, "email")
    THEN {i \in 1..Len(users) : users[i].email = Trim(body.email)}
    ELSE {}

(***************************************************************************)
(* POST /api/auth/register                                                 *)
(***************************************************************************)
Register(body, salt) ==
    LET found == UserFindOne(body)
        reply(status, message) ==
            /\ resp' = Message("register", NoHeader, 0, body, status, message, 0)
            /\ UNCHANGED <<users, tasks, creator, now, issued, pending, client>>
    IN  IF found # {}
        THEN reply(400, "User already exists")
        ELSE IF ~Has(body, "password")
        THEN \* bcrypt.hash(undefined, salt) rejects
             reply(500, "Server error during registration")
        ELSE IF ~Has(body, "email") \/ Trim(body.email) = <<>>
        THEN \* user.save() fails validation: email is required
             reply(500, "Server error during registration")
        ELSE IF \E i \in 1..Len(users) : users[i].email = Trim(body.email)
        THEN \* user.save() fails on the unique index of email
             reply(500, "Server error during registration")
        ELSE LET id == Len(users) + 1
                 user == [email |-> Trim(body.email),
                          password |-> bcryptHash(body.password, salt)]
                 token == jwtSign(id, JWT_SECRET, now)
             IN  /\ Len(users) < MaxUsers
                 /\ users' = Append(users, user)
                 /\ issued' = Keep(token)
                 /\ resp' = Response("register", NoHeader, 0, body, 201, "", 0,
                                     token, NoTask, <<>>)
                 /\ UNCHANGED <<tasks, creator, now, pending, client>>

(***************************************************************************)
(* POST /api/auth/register as the event loop runs it: the handler yields   *)
(* at `await User.findOne`, and between that lookup and `await user.save`  *)
(* other requests are served.  `pending` holds the requests whose lookup   *)
(* found no user and whose save is still to come.                          *)
(***************************************************************************)
RegisterLookup(request, body) ==
    /\ \A p \in pending : p.request # request
    /\ IF UserFindOne(body) # {}
       THEN /\ resp' = Message("register", NoHeader, 0, body, 400,
                               "User already exists", 0)
            /\ UNCHANGED pending
       ELSE /\ pending' = pending \cup {[request |-> request, body |-> body]}
            /\ resp' = NoResponse
    /\ UNCHANGED <<users, tasks, creator, now, issued, client>>

RegisterSave(request, salt) ==
    \E p \in pending :
        LET body == p.body
            reply(status, message) ==
                /\ resp' = Message("register", NoHeader, 0, body, status, message, 0)
                /\ UNCHANGED <<users, tasks, creator, now, issued, client>>
        IN  /\ p.request = request
            /\ pending' = pending \ {p}
            /\ IF ~Has(body, "password")
               THEN \* bcrypt.hash(undefined, salt) rejects
                    reply(500, "Server error during registration")
               ELSE IF ~Has(body, "email") \/ Trim(body.email) = <<>>
               THEN \* user.save() fails validation: email is required
                    reply(500, "Server error during registration")
               ELSE IF \E i \in 1..Len(users) : users[i].email = Trim(body.email)
               THEN \* user.save() fails on the unique index of email
                    reply(500, "Server error during registration")
               ELSE LET id == Len(users) + 1
                        user == [email |-> Trim(body.email),
                                 password |-> bcryptHash(body.password, salt)]
                        token == jwtSign(id, JWT_SECRET, now)
                    IN  /\ Len(users) < MaxUsers
                        /\ users' = Append(users, user)
                        /\ issued' = Keep(token)
                        /\ resp' = Response("register", NoHeader, 0, body, 201, "",
                                            0, token, NoTask, <<>>)
                        /\ UNCHANGED <<tasks, creator, now, client>>

(***************************************************************************)
(* POST /api/auth/login                                                    *)
(***************************************************************************)
\* a login that, once the password matched, hashes it again under a new
\* salt and saves the user
LoginRehash(body) ==
    LET found == UserFindOne(body)
        reply(status, message) ==
            /\ resp' = Message("login", NoHeader, 0, body, status, message, 0)
            /\ UNCHANGED <<users, tasks, creator, now, issued, pending, client>>
    IN  IF found = {}
        THEN reply(400, "Invalid Credentials")
        ELSE LET id == CHOOSE i \in found : TRUE IN
             IF ~Has(body, "password")
             THEN reply(500, "Server error during login")
             ELSE IF ~bcryptCompare(body.password, users[id].password)
             THEN reply(400, "Invalid Credentials")
             ELSE LET token == jwtSign(id, JWT_SECRET, now)
                      salt == users[id].password.salt + 1
                  IN  /\ users' = [users EXCEPT
                                      ![id].password = bcryptHash(body.password, salt)]
                      /\ issued' = Keep(token)
                      /\ resp' = Response("login", NoHeader, 0, body, 200, "", 0,
                                          token, NoTask, <<>>)
                      /\ UNCHANGED <<tasks, creator, now, pending, client>>

Login(body) ==
    LET found == UserFindOne(body)
        reply(status, message) ==
            /\ resp' = Message("login", NoHeader, 0, body, status, message, 0)
            /\ UNCHANGED <<users, tasks, creator, now, issued, pending, client>>
    IN  IF found = {}
        THEN reply(400, "Invalid Credentials")
        ELSE LET id == CHOOSE i \in found : TRUE IN
             IF ~Has(body, "password")
             THEN \* bcrypt.compare(undefined, hash) rejects
                  reply(500, "Server error during login")
             ELSE IF ~bcryptCompare(body.password, users[id].password)
             THEN reply(400, "Invalid Credentials")
             ELSE LET token == jwtSign(id, JWT_SECRET, now)
                  IN  /\ issued' = Keep(token)
                      /\ resp' = Response("login", NoHeader, 0, body, 200, "", 0,
                                          token, NoTask, <<>>)
                      /\ UNCHANGED <<users, tasks, creator, now, pending, client>>

(***************************************************************************)
(* The Task collection.                                                    *)
(***************************************************************************)
\* a route parameter that casts to an ObjectId (any other string does not)
IsObjectId(id) == id >= 1

\* the filter { _id: req.params.id, user: req.user }
TaskMatches(id, user) == id \in DOMAIN tasks /\ tasks[id].user = user

\* Task.find({ user }).sort({ createdAt: 1 }): oldest first
TaskFindSortedAscending(user) ==
    LET match == {i \in DOMAIN tasks : tasks[i].user = user}
        n == Cardinality(match)
    IN  {[k \in 1..n |-> tasks[f[k]]] :
            f \in {g \in [1..n -> match] :
                     /\ \A j, k \in 1..n : j # k => g[j] # g[k]
                     /\ \A j, k \in 1..n :
                            j < k => tasks[g[j]].createdAt <= tasks[g[k]].createdAt}}

\* Task.find({ user }).sort({ createdAt: -1 }): every order the store may
\* return, documents with equal createdAt coming in any order
TaskFindSorted(user) ==
    LET match == {i \in DOMAIN tasks : tasks[i].user = user}
        n == Cardinality(match)
    IN  {[k \in 1..n |-> tasks[f[k]]] :
            f \in {g \in [1..n -> match] :
                     /\ \A j, k \in 1..n : j # k => g[j] # g[k]
                     /\ \A j, k \in 1..n :
                            j < k => tasks[g[j]].createdAt >= tasks[g[k]].createdAt}}

\* the update document as it was sent: no setter runs
CastUpdateRaw(body) == body

\* the update document after casting: setters run on the values of $set
CastUpdate(body) ==
    IF Has(body, "title") THEN [body EXCEPT !.title = Trim(body.title)] ELSE body

\* runValidators: the required validator of a String path refuses ''
UpdateIsValid(update) == Has(update, "title") => update.title # <<>>

\* an update that replaces the document: fields left out fall back to
\* their defaults
ApplyUpdateOverwrite(task, update, t) ==
    [task EXCEPT
        !.title = IF Has(update, "title") THEN update.title ELSE @,
        !.completed = IF Has(update, "completed") THEN update.completed ELSE FALSE,
        !.user = IF Has(update, "user") THEN update.user ELSE @,
        !.updatedAt = t]

\* the document after $set of the fields of the update and of updatedAt
ApplyUpdate(task, update, t) ==
    [task EXCEPT
        !.title = IF Has(update, "title") THEN update.title ELSE @,
        !.completed = IF Has(update, "completed") THEN update.completed ELSE @,
        !.user = IF Has(update, "user") THEN update.user ELSE @,
        !.updatedAt = t]

(***************************************************************************)
(* GET /api/tasks                                                          *)
(***************************************************************************)
GetTasks(header) ==
    LET auth == authMiddleware(header, now) IN
    /\ UNCHANGED <<users, tasks, creator, now, issued, pending, client>>
    /\ IF ~auth.next
       THEN resp' = Message("GET", header, 0, EmptyBody, auth.status, auth.message, 0)
       ELSE \E list \in TaskFindSorted(auth.user) :
                resp' = Response("GET", header, 0, EmptyBody, 200, "", auth.user,
                                 NoToken, NoTask, list)

(***************************************************************************)
(* POST /api/tasks                                                         *)
(***************************************************************************)
PostTask(header, body) ==
    LET auth == authMiddleware(header, now)
        reply(status, message) ==
            /\ resp' = Message("POST", header, 0, body, status, message, auth.user)
            /\ UNCHANGED <<users, tasks, creator, now, issued, pending, client>>
    IN  IF ~auth.next
        THEN reply(auth.status, auth.message)
        ELSE IF ~Has(body, "title") \/ Trim(body.title) = <<>>
        THEN \* newTask.save() fails validation: title is required
             reply(400, "Task validation failed")
        ELSE LET id == Cardinality(DOMAIN creator) + 1
                 task == [id |-> id, title |-> Trim(body.title), completed |-> FALSE,
                          user |-> auth.user, createdAt |-> now, updatedAt |-> now]
             IN  /\ id <= MaxTasks
                 /\ tasks' = [i \in DOMAIN tasks \cup {id} |->
                                IF i = id THEN task ELSE tasks[i]]
                 /\ creator' = [i \in DOMAIN creator \cup {id} |->
                                  IF i = id THEN auth.user ELSE creator[i]]
                 /\ resp' = Response("POST", header, 0, body, 201, "", auth.user,
                                     NoToken, task, <<>>)
                 /\ UNCHANGED <<users, now, issued, pending, client>>

(***************************************************************************)
(* PATCH /api/tasks/:id                                                    *)
(***************************************************************************)
PatchTask(header, id, body) ==
    LET auth == authMiddleware(header, now)
        update == CastUpdate(body)
        reply(status, message) ==
            /\ resp' = Message("PATCH", header, id, body, status, message, auth.user)
            /\ UNCHANGED <<users, tasks, creator, now, issued, pending, client>>
    IN  IF ~auth.next
        THEN reply(auth.status, auth.message)
        ELSE IF ~IsObjectId(id)
        THEN reply(400, "Cast to ObjectId failed")
        ELSE IF ~UpdateIsValid(update)
        THEN reply(400, "Validation failed")
        ELSE IF ~TaskMatches(id, auth.user)
        THEN reply(404, "Task not found or unauthorized")
        ELSE LET task == ApplyUpdate(tasks[id], update, now)
             IN  /\ tasks' = [tasks EXCEPT ![id] = task]
                 /\ resp' = [Response("PATCH", header, id, body, 200, "", auth.user,
                                      NoToken, task, <<>>)
                                EXCEPT !.before = tasks[id]]
                 /\ UNCHANGED <<users, creator, now, issued, pending, client>>

(***************************************************************************)
(* DELETE /api/tasks/:id                                                   *)
(***************************************************************************)
\* a DELETE that finds the task with Task.findOne and answers without
\* removing it
DeleteTaskFindOnly(header, id) ==
    LET auth == authMiddleware(header, now) IN
    /\ resp' = IF ~auth.next
               THEN Message("DELETE", header, id, EmptyBody, auth.status,
                            auth.message, auth.user)
               ELSE IF ~IsObjectId(id)
               THEN Message("DELETE", header, id, EmptyBody, 500,
                            "Cast to ObjectId failed", auth.user)
               ELSE IF ~TaskMatches(id, auth.user)
               THEN Message("DELETE", header, id, EmptyBody, 404,
                            "Task not found or unauthorized", auth.user)
               ELSE Message("DELETE", header, id, EmptyBody, 200,
                            "Task deleted successfully", auth.user)
    /\ UNCHANGED <<users, tasks, creator, now, issued, pending, client>>

DeleteTask(header, id) ==
    LET auth == authMiddleware(header, now)
        reply(status, message) ==
            /\ resp' = Message("DELETE", header, id, EmptyBody, status, message,
                               auth.user)
            /\ UNCHANGED <<users, tasks, creator, now, issued, pending, client>>
    IN  IF ~auth.next
        THEN reply(auth.status, auth.message)
        ELSE IF ~IsObjectId(id)
        THEN reply(500, "Cast to ObjectId failed")
        ELSE IF ~TaskMatches(id, auth.user)
        THEN reply(404, "Task not found or unauthorized")
        ELSE /\ tasks' = [i \in DOMAIN tasks \ {id} |-> tasks[i]]
             /\ resp' = Message("DELETE", header, id, EmptyBody, 200,
                                "Task deleted successfully", auth.user)
             /\ UNCHANGED <<users, creator, now, issued, pending, client>>

(***************************************************************************)
(* The clock.                                                              *)
(***************************************************************************)
Tick(minutes) ==
    /\ now + minutes <= MaxTime
    /\ now' = now + minutes
    /\ resp' = NoResponse
    /\ UNCHANGED <<users, tasks, creator, issued, pending, client>>

(***************************************************************************)
(* The handlers when the store is out of reach: the awaited Mongoose call  *)
(* rejects and the catch block of the route answers.  A request that the   *)
(* guard, the casting or the validation turns away never reaches the       *)
(* store, so each action is enabled only past them.                        *)
(***************************************************************************)
StoreErrorMessage == "MongoNetworkError"

StoreError(op, header, id, body, status, message, user) ==
    /\ resp' = [Message(op, header, id, body, status, message, user)
                    EXCEPT !.storeFailed = TRUE]
    /\ UNCHANGED <<users, tasks, creator, now, issued, pending, client>>

\* User.findOne rejects
RegisterStoreFails(body) ==
    StoreError("register", NoHeader, 0, body, 500,
               "Server error during registration", 0)

\* User.findOne rejects
LoginStoreFails(body) ==
    StoreError("login", NoHeader, 0, body, 500, "Server error during login", 0)

\* Task.find rejects
GetTasksStoreFails(header) ==
    LET auth == authMiddleware(header, now) IN
    /\ auth.next
    /\ StoreError("GET", header, 0, EmptyBody, 500, "Error fetching tasks",
                  auth.user)

\* newTask.save() rejects after validation: the catch answers 400
PostTaskStoreFails(header, body) ==
    LET auth == authMiddleware(header, now) IN
    /\ auth.next
    /\ Has(body, "title") /\ Trim(body.title) # <<>>
    /\ StoreError("POST", header, 0, body, 400, StoreErrorMessage, auth.user)

\* Task.findOneAndUpdate rejects: the catch answers 400
PatchTaskStoreFails(header, id, body) ==
    LET auth == authMiddleware(header, now) IN
    /\ auth.next
    /\ IsObjectId(id) /\ UpdateIsValid(CastUpdate(body))
    /\ StoreError("PATCH", header, id, body, 400, StoreErrorMessage, auth.user)

\* Task.findOneAndDelete rejects
DeleteTaskStoreFails(header, id) ==
    LET auth == authMiddleware(header, now) IN
    /\ auth.next
    /\ IsObjectId(id)
    /\ StoreError("DELETE", header, id, EmptyBody, 500, StoreErrorMessage,
                  auth.user)

(***************************************************************************)
(* App.js, the React client.  `client.token` and `client.tasks` are the    *)
(* state of App, `client.stored` is localStorage's item 'token', and       *)
(* `client.fetches` holds the Authorization headers of the fetchTasks      *)
(* calls that wait for their response.  A request of the client is served  *)
(* by the route's action, which leaves the answer in `resp`; the code      *)
(* after the `await` runs when the client takes the answer from there,     *)
(* and whatever the user does in between runs before it.                   *)
(***************************************************************************)
MaxFetches == 2

\* getConfig(): { headers: { 'Authorization': `Bearer ${token}` } }
getConfig == HeaderOf(<<BearerPart, JwtPart(client.token)>>)

\* what handleLogout leaves: removeItem('token'), setToken(null), setTasks([])
LoggedOut(c) == [c EXCEPT !.stored = NoToken, !.token = NoToken, !.tasks = <<>>]

\* handleAuthSubmit after its await, on the auth screen (shown while there
\* is no token): the token is stored and set, and the effect on [token]
\* calls fetchTasks, which sends its request; an error only sets authError
handleAuthSubmit ==
    /\ client.token = NoToken
    /\ resp.op \in {"register", "login"}
    /\ IF resp.token = NoToken
       THEN UNCHANGED client
       ELSE LET header == HeaderOf(<<BearerPart, JwtPart(resp.token)>>)
            IN  /\ Cardinality(client.fetches \cup {header}) <= MaxFetches
                /\ client' = [client EXCEPT
                                 !.stored = resp.token,
                                 !.token = resp.token,
                                 !.fetches = @ \cup {header}]
    /\ resp' = NoResponse
    /\ UNCHANGED <<users, tasks, creator, now, issued, pending>>

\* the Logout button of the task screen (shown while there is a token)
handleLogout ==
    /\ client.token # NoToken
    /\ client' = LoggedOut(client)
    /\ UNCHANGED <<users, tasks, creator, now, issued, resp, pending>>

\* addTask up to its await: the POST is sent with the token of this render
addTask(body) ==
    /\ client.token # NoToken
    /\ Trim(body.title) # <<>>
    /\ PostTask(getConfig, body)

\* addTask after its await: fetchTasks() of the render that sent the POST
\* finds the token of that render and sends its request; an error is logged
addTaskDone ==
    /\ resp.op = "POST"
    /\ IF resp.status = 201
       THEN /\ Cardinality(client.fetches \cup {resp.header}) <= MaxFetches
            /\ client' = [client EXCEPT !.fetches = @ \cup {resp.header}]
       ELSE UNCHANGED client
    /\ resp' = NoResponse
    /\ UNCHANGED <<users, tasks, creator, now, issued, pending>>

\* the server answers a fetchTasks request that is on its way
fetchTasksServed(header) ==
    /\ header \in client.fetches
    /\ GetTasks(header)

\* fetchTasks after its await: setTasks(response.data), or handleLogout()
\* when the answer is 401
fetchTasksDone ==
    /\ resp.op = "GET"
    /\ resp.header \in client.fetches
    /\ LET c == [client EXCEPT !.fetches = @ \ {resp.header}]
       IN  client' = IF resp.status = 200 THEN [c EXCEPT !.tasks = resp.list]
                     ELSE IF resp.status = 401 THEN LoggedOut(c)
                     ELSE c
    /\ resp' = NoResponse
    /\ UNCHANGED <<users, tasks, creator, now, issued, pending>>

(***************************************************************************)
(* What clients send.                                                      *)
(***************************************************************************)
NumSalts == 1
MaxRequests == 2
Salts == 1..NumSalts
UserIds == 1..MaxUsers
TaskIds == 0..MaxTasks

EmailInputs == {<<"a">>, <<"b">>, <<" ", "a">>, <<" ">>, <<>>}
PasswordInputs == {<<"p">>, <<"q">>, <<>>}

\* every { email, password }, fields left out included
AuthBodies ==
    {AuthBody(has, email, password) :
        has \in SUBSET {"email", "password"},
        email \in EmailInputs, password \in PasswordInputs}

\* two well-formed sign-ups
SignUps == {AuthBody({"email", "password"}, email, <<"p">>) : email \in {<<"a">>, <<"b">>}}

\* a password one byte longer than bcrypt reads, ending in `last`
LongPassword(last) ==
    [k \in 1..(BcryptMaxBytes + 1) |-> IF k <= BcryptMaxBytes THEN "x" ELSE last]

\* the passwords users register with, and those tried at login
RegisterPasswords == {<<"p">>, <<>>, LongPassword("y")}
LoginPasswords == RegisterPasswords \cup {<<"q">>, LongPassword("z")}

\* credentials: two addresses, one also written with padding
SignUpCredentials ==
    {AuthBody({"email", "password"}, email, password) :
        email \in {<<"a">>, <<" ", "a">>, <<"b">>}, password \in RegisterPasswords}
Credentials ==
    {AuthBody({"email", "password"}, email, password) :
        email \in {<<"a">>, <<" ", "a">>, <<"b">>}, password \in LoginPasswords}

\* bodies of POST /api/tasks with a title, no title, an empty title and a
\* title of spaces
TitleBodies ==
    {TaskBody({}, <<>>, FALSE, 0)}
        \cup {TaskBody({"title"}, title, FALSE, 0) :
                  title \in {<<>>, <<" ">>, <<"t">>, <<" ", "u">>}}

\* bodies of PATCH /api/tasks/:id that set the title, or leave it alone
RetitleBodies ==
    {TaskBody({"completed"}, <<>>, TRUE, 0)}
        \cup {TaskBody({"title"}, title, FALSE, 0) :
                  title \in {<<>>, <<" ">>, <<"u", " ">>}}

\* requests being served at the same time
Requests == 1..MaxRequests

\* sign-ups that compete for an address, written with and without padding
RaceBodies ==
    SignUps \cup {AuthBody({"email", "password"}, <<" ", "a">>, <<"q">>)}

\* bodies of POST /api/tasks: titles with and without padding, a blank
\* title, and bodies that also name an owner and a completion flag
PostBodies ==
    {TaskBody({"title"}, title, FALSE, 0) : title \in {<<"t">>, <<" ", "u">>, <<" ">>}}
        \cup {TaskBody({"title", "completed", "user"}, <<"t">>, TRUE, user) : user \in UserIds}

\* bodies of PATCH /api/tasks/:id
PatchBodies ==
    {TaskBody({"completed"}, <<>>, TRUE, 0)}
        \cup {TaskBody({"title"}, title, FALSE, 0) : title \in {<<"u", " ">>, <<" ">>}}
        \cup {TaskBody({"user"}, <<>>, FALSE, user) : user \in UserIds}

\* bodies of PATCH /api/tasks/:id that set completed, or title, or both
ToggleBodies ==
    {TaskBody({"completed"}, <<>>, completed, 0) : completed \in BOOLEAN}
        \cup {TaskBody({"title"}, <<"u", " ">>, FALSE, 0),
              TaskBody({"title", "completed"}, <<"t">>, TRUE, 0)}

\* tokens a client can put together: those it was sent, those with the
\* payload changed after signing, and those signed with a key of its own
Tampered ==
    {[token EXCEPT !.payload.userId = user] : token \in issued, user \in UserIds}
        \cup {[token EXCEPT !.payload.exp = @ + OneHour] : token \in issued}
Forged == {jwtSign(user, "guess", now) : user \in UserIds}
Tokens == issued \cup Tampered \cup Forged

\* the header the browser client sends
BearerHeaders == {HeaderOf(<<BearerPart, JwtPart(token)>>) : token \in issued}

\* headers of every shape
Headers ==
    {NoHeader, HeaderOf(<<>>), HeaderOf(<<BearerPart>>), HeaderOf(<<JunkPart>>),
     HeaderOf(<<BearerPart, JunkPart>>)}
        \cup {HeaderOf(<<BearerPart, JwtPart(token)>>) : token \in Tokens}
        \cup {HeaderOf(<<JwtPart(token)>>) : token \in issued}
        \cup {HeaderOf(<<JwtPart(token), BearerPart>>) : token \in issued}
        \cup {HeaderOf(<<BearerPart, BearerPart, JwtPart(token)>>) : token \in issued}

\* headers without credential, and with tokens held, expired or re-signed
\* with a key that is not the server's
GuardHeaders ==
    {NoHeader, HeaderOf(<<>>), HeaderOf(<<BearerPart>>)}
        \cup {HeaderOf(<<BearerPart, JwtPart(token)>>) : token \in issued}
        \cup {HeaderOf(<<BearerPart,
                         JwtPart(jwtSign(token.payload.userId, "guess", now))>>) :
                  token \in issued}

(***************************************************************************)
(* Spec: the task routes used by registered clients.                       *)
(***************************************************************************)
Next ==
    \/ \E body \in SignUps, salt \in Salts : Register(body, salt)
    \/ \E header \in BearerHeaders \cup {NoHeader} : GetTasks(header)
    \/ \E header \in BearerHeaders, body \in PostBodies : PostTask(header, body)
    \/ \E header \in BearerHeaders, id \in TaskIds, body \in PatchBodies :
           PatchTask(header, id, body)
    \/ \E header \in BearerHeaders, id \in TaskIds : DeleteTask(header, id)

Spec == Init /\ [][Next]_vars

(***************************************************************************)
(* SpecAuth: register and login with every body.                           *)
(***************************************************************************)
NextAuth ==
    \/ \E body \in AuthBodies, salt \in Salts : Register(body, salt)
    \/ \E body \in AuthBodies : Login(body)

SpecAuth == Init /\ [][NextAuth]_vars

(***************************************************************************)
(* SpecExpiry: tokens of every make against the clock.                     *)
(***************************************************************************)
NextExpiry ==
    \/ \E body \in SignUps, salt \in Salts : Register(body, salt)
    \/ \E body \in SignUps : Login(body)
    \/ \E header \in Headers : GetTasks(header)
    \/ \E minutes \in {OneHour - 1, OneHour, OneHour + 1} : Tick(minutes)

SpecExpiry == Init /\ [][NextExpiry]_vars

(***************************************************************************)
(* SpecGuard: headers of every shape on every task route.                  *)
(***************************************************************************)
NextGuard ==
    \/ Register(AuthBody({"email", "password"}, <<"a">>, <<"p">>), 1)
    \/ Login(AuthBody({"email", "password"}, <<"a">>, <<"p">>))
    \/ \E header \in GuardHeaders : GetTasks(header)
    \/ \E header \in GuardHeaders :
           PostTask(header, TaskBody({"title"}, <<"t">>, FALSE, 0))
    \/ \E header \in GuardHeaders, id \in 1..MaxTasks :
           PatchTask(header, id, TaskBody({"completed"}, <<>>, TRUE, 0))
    \/ \E header \in GuardHeaders, id \in 1..MaxTasks : DeleteTask(header, id)
    \/ Tick(OneHour)

SpecGuard == Init /\ [][NextGuard]_vars

(***************************************************************************)
(* SpecToggle: one client creating and updating tasks while time passes.   *)
(***************************************************************************)
NextToggle ==
    \/ Register(AuthBody({"email", "password"}, <<"a">>, <<"p">>), 1)
    \/ \E header \in BearerHeaders :
           PostTask(header, TaskBody({"title"}, <<"t">>, FALSE, 0))
    \/ \E header \in BearerHeaders, id \in 1..MaxTasks, body \in ToggleBodies :
           PatchTask(header, id, body)
    \/ Tick(OneHour - 1)

SpecToggle == Init /\ [][NextToggle]_vars

(***************************************************************************)
(* SpecOutage: every route while the store comes and goes.                 *)
(***************************************************************************)
NextOutage ==
    \/ \E body \in SignUps : Register(body, 1)
    \/ \E header \in BearerHeaders :
           PostTask(header, TaskBody({"title"}, <<"t">>, FALSE, 0))
    \/ \E header \in BearerHeaders : GetTasks(header)
    \/ \E body \in SignUps : RegisterStoreFails(body)
    \/ \E body \in SignUps : LoginStoreFails(body)
    \/ \E header \in BearerHeaders : GetTasksStoreFails(header)
    \/ \E header \in BearerHeaders :
           PostTaskStoreFails(header, TaskBody({"title"}, <<"t">>, FALSE, 0))
    \/ \E header \in BearerHeaders, id \in 1..MaxTasks :
           PatchTaskStoreFails(header, id, TaskBody({"completed"}, <<>>, TRUE, 0))
    \/ \E header \in BearerHeaders, id \in 1..MaxTasks :
           DeleteTaskStoreFails(header, id)

SpecOutage == Init /\ [][NextOutage]_vars

(***************************************************************************)
(* SpecList: clients creating tasks at different times, handing them over  *)
(* and listing them.                                                       *)
(***************************************************************************)
NextList ==
    \/ \E body \in SignUps : Register(body, 1)
    \/ \E header \in BearerHeaders :
           PostTask(header, TaskBody({"title"}, <<"t">>, FALSE, 0))
    \/ \E header \in BearerHeaders, id \in DOMAIN tasks, user \in 1..Len(users) :
           PatchTask(header, id, TaskBody({"user"}, <<>>, FALSE, user))
    \/ \E header \in BearerHeaders : GetTasks(header)
    \/ Tick(OneHour - 1)

SpecList == Init /\ [][NextList]_vars

(***************************************************************************)
(* SpecRace: register requests served at the same time.                    *)
(***************************************************************************)
NextRace ==
    \/ \E request \in Requests, body \in RaceBodies : RegisterLookup(request, body)
    \/ \E request \in Requests : RegisterSave(request, 1)

SpecRace == Init /\ [][NextRace]_vars

(***************************************************************************)
(* SpecUsers: sign-ups, logins and task requests side by side.             *)
(***************************************************************************)
NextUsers ==
    \/ \E body \in RaceBodies : Register(body, 1)
    \/ \E body \in RaceBodies : Login(body)
    \/ \E header \in BearerHeaders \cup {NoHeader} : GetTasks(header)
    \/ \E header \in BearerHeaders \cup {NoHeader} :
           PostTask(header, TaskBody({"title"}, <<"t">>, FALSE, 0))
    \/ \E header \in BearerHeaders \cup {NoHeader}, id \in 1..MaxTasks :
           PatchTask(header, id, TaskBody({"completed"}, <<>>, TRUE, 0))
    \/ \E header \in BearerHeaders \cup {NoHeader}, id \in 1..MaxTasks :
           DeleteTask(header, id)

SpecUsers == Init /\ [][NextUsers]_vars

(***************************************************************************)
(* SpecTitles: one client creating and renaming tasks with every title.    *)
(***************************************************************************)
NextTitles ==
    \/ Register(AuthBody({"email", "password"}, <<"a">>, <<"p">>), 1)
    \/ \E header \in BearerHeaders \cup {NoHeader}, body \in TitleBodies :
           PostTask(header, body)
    \/ \E header \in BearerHeaders, id \in 1..MaxTasks, body \in RetitleBodies :
           PatchTask(header, id, body)

SpecTitles == Init /\ [][NextTitles]_vars

(***************************************************************************)
(* SpecRoundTrip: sign-ups and later logins with every credential.         *)
(***************************************************************************)
NextRoundTrip ==
    \/ \E body \in SignUpCredentials, salt \in Salts : Register(body, salt)
    \/ \E body \in Credentials : Login(body)
    \/ Tick(OneHour + 1)

SpecRoundTrip == Init /\ [][NextRoundTrip]_vars

(***************************************************************************)
(* SpecClient: one browser client against the server.                      *)
(***************************************************************************)
NextClient ==
    \/ Register(AuthBody({"email", "password"}, <<"a">>, <<"p">>), 1)
    \/ Login(AuthBody({"email", "password"}, <<"a">>, <<"p">>))
    \/ handleAuthSubmit
    \/ handleLogout
    \/ addTask(TaskBody({"title"}, <<"t">>, FALSE, 0))
    \/ addTaskDone
    \/ \E header \in client.fetches : fetchTasksServed(header)
    \/ fetchTasksDone
    \/ Tick(OneHour)

SpecClient == Init /\ [][NextClient]_vars

(***************************************************************************)
(* Properties.                                                             *)
(***************************************************************************)
TaskOps == {"GET", "POST", "PATCH", "DELETE"}

\* the tasks that were created with the identity `user` and not deleted
CreatedBy(user) == {i \in DOMAIN tasks : creator[i] = user}

\* C1: a PATCH (with a body that passes validation) or a DELETE that user B's
\* token sends for the id of a task created by another user A answers 404,
\* and a GET with B's token lists no task that B did not create.
C1_CrossUserIsolation ==
    /\ ( /\ resp.op \in {"PATCH", "DELETE"}
         /\ resp.user # 0
         /\ resp.id \in DOMAIN creator
         /\ creator[resp.id] # resp.user
         /\ resp.op = "PATCH" => UpdateIsValid(CastUpdate(resp.body)) )
       => resp.status = 404
    /\ (resp.op = "GET" /\ resp.status = 200)
       => \A k \in 1..Len(resp.list) : creator[resp.list[k].id] = resp.user

\* C2: the owner of every stored task is the identity of the token that
\* created it, whatever POST and PATCH bodies were sent.
C2_OwnerIsCreator == \A i \in DOMAIN tasks : tasks[i].user = creator[i]

\* C9: GET /api/tasks answers with exactly one entry for each task the
\* caller created and has not deleted.
C9_ListIsWhatCallerCreated ==
    (resp.op = "GET" /\ resp.status = 200)
       => /\ {resp.list[k].id : k \in 1..Len(resp.list)} = CreatedBy(resp.user)
          /\ Len(resp.list) = Cardinality(CreatedBy(resp.user))

\* C9, first half, with the title as the schema stores it: a caller without
\* tasks who creates one and then lists gets one entry with the trimmed
\* title, completed = false and itself as owner.
C9_CreateThenList ==
    [][ ( /\ resp.op = "POST" /\ resp.status = 201
          /\ {i \in DOMAIN tasks : tasks[i].user = resp.user} = {resp.task.id}
          /\ resp'.op = "GET" /\ resp'.status = 200 /\ resp'.user = resp.user )
        => /\ Len(resp'.list) = 1
           /\ resp'.list[1].title = Trim(resp.body.title)
           /\ resp'.list[1].completed = FALSE
           /\ resp'.list[1].user = resp.user ]_vars

\* the header is `Bearer ` followed by a well-formed token
IsBearerToken(header) ==
    /\ header.present
    /\ Len(header.parts) = 2
    /\ header.parts[1] = BearerPart
    /\ header.parts[2].kind = "jwt"

TokenOf(header) == header.parts[2].tok

\* C3: register and login issue tokens that expire exactly 60 minutes after
\* issuance; the guard lets a token through iff its signature is the
\* server's over its payload and the clock is before its expiry, and answers
\* 401 otherwise; so a token issued at T passes at T+59 and gets 401 at
\* T+61, and a token whose payload was changed after signing gets 401.
C3_TokenValidity ==
    /\ (resp.op \in {"register", "login"} /\ resp.status \in {200, 201})
       => /\ resp.token.payload.iat = now
          /\ resp.token.payload.exp = now + 60
    /\ \A token \in issued : token.payload.exp = token.payload.iat + 60
    /\ (resp.op = "GET" /\ IsBearerToken(resp.header))
       => LET token == TokenOf(resp.header) IN
          /\ resp.status = 200
                <=> /\ token.sig = HMAC(token.payload, JWT_SECRET)
                    /\ now < token.payload.exp
          /\ resp.status \in {200, 401}
          /\ (token \in issued /\ now = token.payload.iat + 59) => resp.status = 200
          /\ (token \in issued /\ now = token.payload.iat + 61) => resp.status = 401
          /\ (\E signed \in issued :
                 token.sig = signed.sig /\ token.payload # signed.payload)
             => resp.status = 401

\* C3 witness: a token the server issued is refused 61 minutes later
C3_ExpiredRejected ==
    /\ resp.op = "GET"
    /\ IsBearerToken(resp.header)
    /\ TokenOf(resp.header) \in issued
    /\ now = TokenOf(resp.header).payload.iat + 61
    /\ resp.status = 401

\* the Authorization header is absent or empty, or its token is empty,
\* wrongly signed or expired at time t
BadCredential(header, t) ==
    \/ ~header.present
    \/ header.parts = <<>>
    \/ header.parts = <<BearerPart>>
    \/ /\ IsBearerToken(header)
       /\ \/ TokenOf(header).sig # HMAC(TokenOf(header).payload, JWT_SECRET)
          \/ t >= TokenOf(header).payload.exp

\* C4: a GET, POST, PATCH or DELETE on tasks that comes without Authorization
\* header, or with an empty, wrongly signed or expired token, is answered
\* 401 (not 500), carries no task data, and changes no User or Task record.
C4_GuardRejects ==
    [][ (resp'.op \in TaskOps /\ BadCredential(resp'.header, now))
        => /\ resp'.status = 401
           /\ resp'.list = <<>> /\ resp'.task = NoTask /\ resp'.token = NoToken
           /\ resp'.user = 0
           /\ UNCHANGED <<users, tasks, creator, issued>> ]_vars

\* C4 witness: a DELETE of an existing task with an expired token got 401
C4_ExpiredTokenOnDelete ==
    /\ resp.op = "DELETE" /\ resp.status = 401
    /\ IsBearerToken(resp.header)
    /\ TokenOf(resp.header) \in issued
    /\ now >= TokenOf(resp.header).payload.exp
    /\ resp.id \in DOMAIN tasks

\* C5: a request whose Authorization header is present but is not `Bearer `
\* followed by the token is rejected with 401.
C5_BearerPrefixRequired ==
    (resp.op \in TaskOps /\ resp.header.present /\ ~IsBearerToken(resp.header))
       => resp.status = 401

\* the User documents whose identifier is `email` (as stored: trimmed)
UsersNamed(store, email) == {i \in 1..Len(store) : store[i].email = Trim(email)}

\* C6: a Register with a new identifier answers 201 with a token and adds one
\* User; a Register with the same identifier right after it answers 400
\* "User already exists", adds nothing, and one User has that identifier.
C6_RegisterTwice ==
    [][ /\ ( /\ resp'.op = "register"
             /\ resp'.body.has = {"email", "password"}
             /\ Trim(resp'.body.email) # <<>>
             /\ UsersNamed(users, resp'.body.email) = {} )
           => /\ resp'.status = 201
              /\ resp'.token = jwtSign(Len(users'), JWT_SECRET, now)
              /\ Len(users') = Len(users) + 1
              /\ UsersNamed(users', resp'.body.email) = {Len(users')}
        /\ ( /\ resp.op = "register" /\ resp.status = 201
             /\ resp'.op = "register"
             /\ Has(resp'.body, "email")
             /\ Trim(resp'.body.email) = Trim(resp.body.email) )
           => /\ resp'.status = 400
              /\ resp'.message = "User already exists"
              /\ resp'.token = NoToken
              /\ users' = users
              /\ Cardinality(UsersNamed(users', resp'.body.email)) = 1 ]_vars

\* C6 witness: a second Register for a stored identifier was refused
C6_SecondRegisterRefused ==
    /\ resp.op = "register" /\ resp.status = 400
    /\ resp.message = "User already exists"
    /\ Cardinality(UsersNamed(users, resp.body.email)) = 1

\* the password sent is not one the stored hash can be made from
WrongPasswordFor(i, body) ==
    /\ Has(body, "password")
    /\ users[i].password.digest[2] # bcryptTruncate(body.password)

C8_RegisterValidates ==
    ( /\ resp.op = "register"
      /\ \/ ~Has(resp.body, "email") \/ resp.body.email = <<>>
         \/ ~Has(resp.body, "password") \/ resp.body.password = <<>> )
    => (resp.status = 400 /\ resp.token = NoToken)

\* C10 as stated: a PATCH changes nothing of the task but the fields present
\* in its body.
C10_PatchChangesOnlyBodyFields ==
    [][ (resp'.op = "PATCH" /\ resp'.status = 200)
        => LET old == tasks[resp'.id]
               new == tasks'[resp'.id]
               body == resp'.body
           IN  /\ ~Has(body, "title") => new.title = old.title
               /\ ~Has(body, "completed") => new.completed = old.completed
               /\ ~Has(body, "user") => new.user = old.user
               /\ new.id = old.id
               /\ new.createdAt = old.createdAt
               /\ new.updatedAt = old.updatedAt ]_vars

\* C10 amended: a PATCH sets the fields present in its body (the title
\* trimmed), sets updatedAt to the time of the request, and changes nothing
\* else of that task nor any other task; so PATCH {completed: true} followed
\* by PATCH {completed: false} from the same caller answers 200 and leaves
\* the task with completed = false and the title and owner it had.
C10_PatchEffect ==
    [][ /\ (resp'.op = "PATCH" /\ resp'.status = 200)
           => LET old == tasks[resp'.id]
                  new == tasks'[resp'.id]
                  body == resp'.body
              IN  /\ new.title = IF Has(body, "title") THEN Trim(body.title)
                                 ELSE old.title
                  /\ new.completed = IF Has(body, "completed") THEN body.completed
                                     ELSE old.completed
                  /\ new.user = IF Has(body, "user") THEN body.user ELSE old.user
                  /\ new.id = old.id
                  /\ new.createdAt = old.createdAt
                  /\ new.updatedAt = now
                  /\ resp'.task = new
                  /\ DOMAIN tasks' = DOMAIN tasks
                  /\ \A i \in DOMAIN tasks \ {resp'.id} : tasks'[i] = tasks[i]
                  /\ UNCHANGED <<users, creator, issued>>
        /\ ( /\ resp.op = "PATCH" /\ resp.status = 200
             /\ resp.body = TaskBody({"completed"}, <<>>, TRUE, 0)
             /\ resp.before.completed = FALSE
             /\ resp'.op = "PATCH" /\ resp'.id = resp.id
             /\ resp'.user = resp.user
             /\ resp'.body = TaskBody({"completed"}, <<>>, FALSE, 0) )
           => /\ resp'.status = 200
              /\ tasks'[resp.id].completed = FALSE
              /\ tasks'[resp.id].title = resp.before.title
              /\ tasks'[resp.id].user = resp.before.user ]_vars

\* C10 witness: PATCH {completed: false} put a completed task back
C10_ToggledBack ==
    /\ resp.op = "PATCH" /\ resp.status = 200
    /\ resp.body = TaskBody({"completed"}, <<>>, FALSE, 0)
    /\ resp.before.completed = TRUE
    /\ tasks[resp.id].completed = FALSE
    /\ tasks[resp.id].title = resp.before.title
    /\ tasks[resp.id].updatedAt > tasks[resp.id].createdAt


\* C11: a request during which a call to the store failed is answered 500,
\* whatever the route (register, login, GET, POST, PATCH or DELETE of tasks).
C11_StoreFailureIs500 == resp.storeFailed => resp.status = 500


\* C12: a GET answered 200 lists exactly the stored tasks whose owner is
\* the identity of the caller's token, each once and as stored, and newest
\* first: of two listed tasks the one with the later createdAt comes earlier.
C12_ListNewestFirst ==
    (resp.op = "GET" /\ resp.status = 200) =>
        LET list == resp.list
            owned == {i \in DOMAIN tasks : tasks[i].user = resp.user}
        IN  /\ {list[k].id : k \in 1..Len(list)} = owned
            /\ Len(list) = Cardinality(owned)
            /\ \A k \in 1..Len(list) : list[k] = tasks[list[k].id]
            /\ \A j, k \in 1..Len(list) :
                   list[j].createdAt > list[k].createdAt => j < k

\* a list of two tasks created at different times
C12_TwoListed ==
    /\ resp.op = "GET" /\ resp.status = 200
    /\ Len(resp.list) = 2
    /\ resp.list[1].createdAt > resp.list[2].createdAt


\* C13: however the lookups and the saves of register requests for one
\* address interleave, no two User records hold that address, and a request
\* that does not answer 201 although it names an address (and a password)
\* is told that the address is taken: 400.
C13_RegisterRace ==
    /\ \A i, j \in 1..Len(users) : users[i].email = users[j].email => i = j
    /\ (/\ resp.op = "register" /\ resp.status # 201
        /\ Has(resp.body, "email") /\ Has(resp.body, "password")
        /\ UsersNamed(users, Trim(resp.body.email)) # {})
           => resp.status = 400


\* C14: a task that was deleted stays deleted: it is in no later list, no
\* later PATCH or DELETE of its id answers 200 or changes the store, and
\* those whose token is accepted (and whose body passes validation) answer
\* 404.  A DELETE answers 200 exactly when the task is stored and the
\* caller's, and removes it, so that of two DELETEs of one task one answers
\* 200.
C14_DeletionIsPermanent ==
    [][ LET deleted == DOMAIN creator \ DOMAIN tasks
            id == resp'.id
        IN  /\ deleted \subseteq DOMAIN creator' \ DOMAIN tasks'
            /\ resp'.op = "GET" =>
                   \A k \in 1..Len(resp'.list) : resp'.list[k].id \notin deleted
            /\ (resp'.op \in {"PATCH", "DELETE"} /\ id \in deleted) =>
                   /\ resp'.status # 200
                   /\ tasks' = tasks
                   /\ ( /\ resp'.status # 401
                        /\ Has(resp'.body, "title") => Trim(resp'.body.title) # <<>> )
                          => resp'.status = 404
            /\ (resp'.op = "DELETE" /\ resp'.status # 401) =>
                   IF id \in DOMAIN tasks /\ tasks[id].user = resp'.user
                   THEN /\ resp'.status = 200
                        /\ tasks' = [i \in DOMAIN tasks \ {id} |-> tasks[i]]
                   ELSE resp'.status # 200 /\ tasks' = tasks ]_vars

\* the creator of a task deletes it a second time and is told 404
C14_DeletedTwice ==
    /\ resp.op = "DELETE" /\ resp.status = 404
    /\ resp.id \in DOMAIN creator \ DOMAIN tasks
    /\ creator[resp.id] = resp.user


\* C15: the User records are only added to: a register answered 201 adds
\* one record, and every other request (a register that fails, a login, a
\* task request, whatever the guard decides) leaves the records as they
\* are; no record's identifier or password hash ever changes.
C15_UsersOnlyAdded ==
    [][ /\ Len(users') >= Len(users)
        /\ \A i \in 1..Len(users) : users'[i] = users[i]
        /\ IF resp'.op = "register" /\ resp'.status = 201
           THEN Len(users') = Len(users) + 1
           ELSE users' = users ]_vars

\* a second user logs in while two users are registered
C15_SecondUserLogsIn ==
    /\ resp.op = "login" /\ resp.status = 200
    /\ resp.token.payload.userId = 2
    /\ Len(users) = 2


\* C16: the owner of every stored task is the _id of a stored User.
C16_OwnerExists ==
    \A i \in DOMAIN tasks : tasks[i].user \in 1..Len(users)


\* C17: every stored task has a title that is not empty; a POST whose
\* title is missing, empty or made of spaces, and a PATCH whose title is
\* empty or made of spaces, are answered 400 (once the token is accepted)
\* and change nothing.
C17_TitleNeverEmpty ==
    [][ /\ \A i \in DOMAIN tasks' : tasks'[i].title # <<>>
        /\ ( /\ resp'.op = "POST" /\ resp'.status # 401
             /\ ~Has(resp'.body, "title") \/ Trim(resp'.body.title) = <<>> )
               => resp'.status = 400 /\ UNCHANGED <<users, tasks, creator>>
        /\ ( /\ resp'.op = "PATCH" /\ resp'.status # 401
             /\ Has(resp'.body, "title") /\ Trim(resp'.body.title) = <<>> )
               => resp'.status = 400 /\ UNCHANGED <<users, tasks, creator>> ]_vars

\* the owner of a stored task asks for a title of spaces and is refused
C17_BlankRetitleRefused ==
    /\ resp.op = "PATCH" /\ resp.status = 400
    /\ resp.body.title = <<" ">>
    /\ TaskMatches(resp.id, resp.user)


\* the password a user registered with, told from the hash that is stored
\* (no two of RegisterPasswords share their first 72 bytes)
Registered(hash) ==
    CHOOSE password \in RegisterPasswords : bcryptTruncate(password) = hash.digest[2]

\* C18 as stated: a Register answered 201 stores the identifier with a hash
\* of the password and names the new record in its token; every later Login
\* with that identifier answers 200, with a token signed at the time of the
\* login for that same record, when the password is the registered one, and
\* 400 without a token when it is any other password.
C18_RegisterLoginRoundTrip ==
    [][ /\ (resp'.op = "register" /\ resp'.status = 201) =>
               LET id == resp'.token.payload.userId
               IN  /\ id = Len(users')
                   /\ UsersNamed(users', resp'.body.email) = {id}
                   /\ Registered(users'[id].password) = resp'.body.password
        /\ resp'.op = "login" =>
               \A i \in UsersNamed(users, resp'.body.email) :
                   IF resp'.body.password = Registered(users[i].password)
                   THEN /\ resp'.status = 200
                        /\ resp'.token = jwtSign(i, JWT_SECRET, now)
                   ELSE /\ resp'.status = 400
                        /\ resp'.token = NoToken ]_vars

\* C18, amended: as above, but a Login is answered 200 when its password
\* has the first 72 bytes of the registered one, and 400 when it differs
\* from it within them.
C18_RoundTripUpTo72Bytes ==
    [][ /\ (resp'.op = "register" /\ resp'.status = 201) =>
               LET id == resp'.token.payload.userId
               IN  /\ id = Len(users')
                   /\ UsersNamed(users', resp'.body.email) = {id}
                   /\ Registered(users'[id].password) = resp'.body.password
        /\ resp'.op = "login" =>
               \A i \in UsersNamed(users, resp'.body.email) :
                   IF bcryptTruncate(resp'.body.password)
                          = bcryptTruncate(Registered(users[i].password))
                   THEN /\ resp'.status = 200
                        /\ resp'.token = jwtSign(i, JWT_SECRET, now)
                   ELSE /\ resp'.status = 400
                        /\ resp'.token = NoToken ]_vars

\* a login with the registered password, a long one, answered 200 some
\* time after an earlier token was issued for the same record
C18_LoggedInLater ==
    /\ resp.op = "login" /\ resp.status = 200
    /\ resp.body.password = LongPassword("y")
    /\ \E token \in issued :
           /\ token.payload.userId = resp.token.payload.userId
           /\ token.payload.iat < resp.token.payload.iat


\* C19: whenever the client has no token, localStorage holds no token and
\* the client's list of tasks is empty.
C19_LoggedOutHoldsNothing ==
    client.token = NoToken => (client.stored = NoToken /\ client.tasks = <<>>)

====
